---- MODULE Spec2Model ----
(***************************************************************************)
(* meshvox: surface voxelization of a triangle mesh (Voxels::voxelize),    *)
(* interior fill (Voxels::fill), bounds (Voxels::min_max), point export    *)
(* (Voxels::point_cloud) and face-culled mesh reconstruction               *)
(* (Voxels::vertices_indices, voxel_to_mesh).                              *)
(*                                                                         *)
(* Numbers.  T is instantiated at f64.  Every length of the model is an    *)
(* integer multiple of T::epsilon() = 2^-52, so a coordinate c of the      *)
(* model is the float c * 2^-52.  With the small integers used here every  *)
(* sum, difference, product and halving the code performs is exact in f64, *)
(* and floor/ceil of a quotient of two such numbers is the floor/ceil of   *)
(* the exact quotient, so integer arithmetic is the arithmetic of the      *)
(* code.  Where the code halves (c = (max+min)/2, h = (max-min)/2,         *)
(* half = step/2) the model keeps the doubled quantity and compares the    *)
(* doubled sides of the inequality.                                        *)
(***************************************************************************)
EXTENDS Integers, Sequences, FiniteSets, Bags, TLC

VARIABLES pc, vertices, indices, step, tris, voxels, grid_positions,
          panic, last_op, pre_fill, ret

\* pc             where the call of Voxels::voxelize is, "done" once a Voxels exists
\* vertices, indices, step   the arguments of voxelize; step is also Voxels.step
\* tris, voxels   the locals of voxelize
\* grid_positions Voxels.grid_positions
\* panic          the message of the panic that ended the call
\* last_op        the last operation that made or changed the Voxels or read it
\* pre_fill       the Voxels as it was before the last fill
\* ret            what the last reading operation returned
vars == <<pc, vertices, indices, step, tris, voxels, grid_positions,
          panic, last_op, pre_fill, ret>>

(***************************************************************************)
(* Program constants                                                       *)
(***************************************************************************)
\* T::epsilon(), the unit of length of the model
Epsilon == 1
\* eps = T::epsilon() * T::from(10)
EpsFactor == 10
\* i32::max_value()
I32Max == 2147483647
\* i32::min_value()
I32Min == (-I32Max) - 1

(***************************************************************************)
(* Bounds of the inputs                                                    *)
(***************************************************************************)
\* distance between neighbouring lattice points the vertices are drawn from
Pitch == 40
\* the lattice has the points 0..MaxLZ along z (and 0..1 along x and y)
MaxLZ == 2
\* longest index list of a mesh over BaseVertices
MaxIndices == 6
\* the row of cells of the occupancy sets handed to Voxels::new is 0..MaxX
MaxX == 4

(***************************************************************************)
(* vector.rs                                                               *)
(***************************************************************************)
Abs(a) == IF a < 0 THEN -a ELSE a
Min2(a, b) == IF a < b THEN a ELSE b
Max2(a, b) == IF a > b THEN a ELSE b

VAdd(a, b) == <<a[1] + b[1], a[2] + b[2], a[3] + b[3]>>
VSub(a, b) == <<a[1] - b[1], a[2] - b[2], a[3] - b[3]>>
VScale(a, k) == <<a[1] * k, a[2] * k, a[3] * k>>
Dot(a, b) == a[1] * b[1] + a[2] * b[2] + a[3] * b[3]
Cross(a, b) == <<a[2] * b[3] - a[3] * b[2],
                 a[3] * b[1] - a[1] * b[3],
                 a[1] * b[2] - a[2] * b[1]>>
Axis(i) == [k \in 1..3 |-> IF k = i THEN 1 ELSE 0]

(***************************************************************************)
(* sat.rs: triangle / box overlap.  A triangle is [points, aabb], a box is *)
(* [min, max].                                                             *)
(***************************************************************************)
\* plane_aabb_intersects; s and e are kept doubled
plane_aabb_intersects(triangle, aabb) ==
    LET normal == Cross(VSub(triangle.points[2], triangle.points[1]),
                        VSub(triangle.points[3], triangle.points[1]))
        d  == -Dot(normal, triangle.points[1])
        c2 == VAdd(aabb.max, aabb.min)
        h2 == VSub(aabb.max, aabb.min)
        e2 == h2[1] * Abs(normal[1]) + h2[2] * Abs(normal[2]) + h2[3] * Abs(normal[3])
        s2 == Dot(c2, normal) + 2 * d
    IN ~((s2 - e2 > 0) \/ (s2 + e2 < 0))

\* tri_edge_aabb_intersects; v and f are kept doubled, p0, p1, p2 and r
\* four-fold
tri_edge_aabb_intersects(triangle, aabb) ==
    LET c2 == VAdd(aabb.max, aabb.min)
        h2 == VSub(aabb.max, aabb.min)
        v  == [n \in 1..3 |-> VSub(VScale(triangle.points[n], 2), c2)]
        f  == <<VSub(v[2], v[1]), VSub(v[3], v[2]), VSub(v[1], v[3])>>
    IN \A i \in 1..3 : \A j \in 1..3 :
          LET a  == Cross(Axis(i), f[j])
              p0 == Dot(a, v[1])
              p1 == Dot(a, v[2])
              p2 == Dot(a, v[3])
              r  == h2[1] * Abs(a[1]) + h2[2] * Abs(a[2]) + h2[3] * Abs(a[3])
          IN ~((Min2(Min2(p0, p1), p2) > r) \/ (Max2(Max2(p0, p1), p2) < -r))

\* triangle_aabb_intersects: the plane test, then the nine edge axes
triangle_aabb_intersects(triangle, aabb) ==
    /\ plane_aabb_intersects(triangle, aabb)
    /\ tri_edge_aabb_intersects(triangle, aabb)

(***************************************************************************)
(* voxelize.rs: Triangle                                                   *)
(***************************************************************************)
\* Triangle::new: the points and their tight bounding box
TriangleNew(p1, p2, p3) ==
    [points |-> <<p1, p2, p3>>,
     aabb   |-> [min |-> [n \in 1..3 |-> Min2(Min2(p1[n], p2[n]), p3[n])],
                 max |-> [n \in 1..3 |-> Max2(Max2(p1[n], p2[n]), p3[n])]]]

\* to_grid_step_floor: (value / step).floor(); \div rounds down for step > 0
to_grid_step_floor(value, st) == value \div st

\* to_grid_step_ceil: (value / step).ceil()
to_grid_step_ceil(value, st) == -((-value) \div st)

\* Triangle::grid_aabb
grid_aabb(triangle, st) ==
    [min |-> [n \in 1..3 |-> to_grid_step_floor(triangle.aabb.min[n], st)],
     max |-> [n \in 1..3 |-> to_grid_step_ceil(triangle.aabb.max[n], st)]]

\* the padded box Triangle::voxelize tests for cell (i, j, k)
CellBox(cell, st, eps) ==
    LET min == VScale(cell, st)
        max == VAdd(min, <<st, st, st>>)
    IN [min |-> VSub(min, <<eps, eps, eps>>),
        max |-> VAdd(max, <<eps, eps, eps>>)]

\* the innermost loop of Triangle::voxelize from k on: the cells pushed, and
\* intersects_pre as the loop leaves it
RECURSIVE ScanK(_, _, _, _, _, _, _, _)
ScanK(triangle, st, eps, i, j, k, kmax, intersects_pre) ==
    IF k > kmax
    THEN [cells |-> <<>>, pre |-> intersects_pre]
    ELSE LET intersects ==
                 triangle_aabb_intersects(triangle, CellBox(<<i, j, k>>, st, eps))
         IN IF intersects_pre /\ ~intersects
            THEN [cells |-> <<>>, pre |-> FALSE]
            ELSE LET rest == ScanK(triangle, st, eps, i, j, k + 1, kmax, intersects)
                 IN [cells |-> (IF intersects THEN <<(<<i, j, k>>)>> ELSE <<>>)
                                   \o rest.cells,
                     pre   |-> rest.pre]

\* the two outer loops of Triangle::voxelize from column (i, j) on;
\* intersects_pre is carried from one column into the next
RECURSIVE ScanIJ(_, _, _, _, _, _, _)
ScanIJ(triangle, st, eps, g, i, j, intersects_pre) ==
    IF i > g.max[1]
    THEN <<>>
    ELSE IF j > g.max[2]
    THEN ScanIJ(triangle, st, eps, g, i + 1, g.min[2], intersects_pre)
    ELSE LET col == ScanK(triangle, st, eps, i, j, g.min[3], g.max[3], intersects_pre)
         IN col.cells \o ScanIJ(triangle, st, eps, g, i, j + 1, col.pre)

\* Triangle::voxelize
TriVoxelize(triangle, st, eps) ==
    LET g == grid_aabb(triangle, st)
    IN ScanIJ(triangle, st, eps, g, g.min[1], g.min[2], FALSE)

Range(s) == {s[n] : n \in DOMAIN s}

(***************************************************************************)
(* Inputs of Voxels::voxelize                                              *)
(***************************************************************************)
\* the lattice the vertices of single triangles are drawn from
Lattice == {<<Pitch * x, Pitch * y, Pitch * z>> : x \in 0..1, y \in 0..1, z \in 0..MaxLZ}

\* position of a lattice point in the lexicographic order
LatticeOrd(p) == (p[1] * 2 + p[2]) * (MaxLZ + 1) + p[3]

\* one face over three lattice points, listed in lexicographic order
TriangleMeshes ==
    {[vertices |-> <<a, b, c>>, indices |-> <<0, 1, 2>>] :
        <<a, b, c>> \in {t \in Lattice \X Lattice \X Lattice :
                            /\ LatticeOrd(t[1]) < LatticeOrd(t[2])
                            /\ LatticeOrd(t[2]) < LatticeOrd(t[3])}}

\* a vertex array of three points
BaseVertices == << <<0, 0, 0>>, <<0, 0, Pitch>>, <<0, Pitch, 2 * Pitch>> >>

\* every index list of at most MaxIndices entries over BaseVertices; the index
\* Len(BaseVertices) is past the end of the array, and a list whose length is
\* no multiple of 3 ends in a short chunk
IndexedMeshes ==
    {[vertices |-> BaseVertices, indices |-> s] :
        s \in UNION {[1..n -> 0..Len(BaseVertices)] : n \in 0..MaxIndices}}

\* the cube [0, Pitch]^3 as 12 triangles, two per face
CubeVertices ==
    << <<0, 0, 0>>, <<Pitch, 0, 0>>, <<Pitch, Pitch, 0>>, <<0, Pitch, 0>>,
       <<0, 0, Pitch>>, <<Pitch, 0, Pitch>>, <<Pitch, Pitch, Pitch>>, <<0, Pitch, Pitch>> >>
CubeIndices ==
    <<0, 2, 1,  0, 3, 2,   4, 5, 6,  4, 6, 7,
      0, 1, 5,  0, 5, 4,   3, 6, 2,  3, 7, 6,
      0, 4, 7,  0, 7, 3,   1, 2, 6,  1, 6, 5>>
CubeMesh == [vertices |-> CubeVertices, indices |-> CubeIndices]

Meshes == TriangleMeshes \cup IndexedMeshes \cup {CubeMesh}

\* the grid steps of a call: three at or below T::epsilon() (a negative one,
\* zero, T::epsilon() itself), one equal to the lattice pitch and one that
\* puts the lattice points off the grid planes
Steps == {-Pitch, 0, Epsilon, Pitch, Pitch + (Pitch \div 2)}

(***************************************************************************)
(* Voxels::voxelize, one action per step of the function                   *)
(***************************************************************************)
NoRet == [op |-> "none"]
\* pre_fill before any fill: a Voxels of no cells
NoVoxels == [grid_positions |-> {}, step |-> 0]

Init ==
    /\ pc = "idle"
    /\ vertices = <<>>
    /\ indices = <<>>
    /\ step = 0
    /\ tris = <<>>
    /\ voxels = <<>>
    /\ grid_positions = {}
    /\ panic = "none"
    /\ last_op = "none"
    /\ pre_fill = NoVoxels
    /\ ret = NoRet

\* the call: the arguments are bound
VoxelizeCall ==
    /\ pc = "idle"
    /\ \E m \in Meshes : \E st \in Steps :
          /\ vertices' = m.vertices
          /\ indices' = m.indices
          /\ step' = st
    /\ pc' = "check_step"
    /\ UNCHANGED <<tris, voxels, grid_positions, panic, last_op, pre_fill, ret>>

\* CheckStep with the test `step <= 0` in place of `step <= T::epsilon()`
CheckStepZero ==
    /\ pc = "check_step"
    /\ IF step <= 0
       THEN /\ pc' = "panicked"
            /\ panic' = "step should be positive value"
       ELSE /\ pc' = "build_tris"
            /\ panic' = panic
    /\ UNCHANGED <<vertices, indices, step, tris, voxels, grid_positions,
                   last_op, pre_fill, ret>>

\* if step <= T::epsilon() { panic!(..) }
CheckStep ==
    /\ pc = "check_step"
    /\ IF step <= Epsilon
       THEN /\ pc' = "panicked"
            /\ panic' = "step should be positive value"
       ELSE /\ pc' = "build_tris"
            /\ panic' = panic
    /\ UNCHANGED <<vertices, indices, step, tris, voxels, grid_positions,
                   last_op, pre_fill, ret>>

\* the chunk of indices the loop of indices.chunks(3) is at: chunk number n,
\* from 0; the last chunk may be short
Chunk(idx, n) == SubSeq(idx, 3 * n + 1, Min2(3 * n + 3, Len(idx)))
NumChunks(idx) == (Len(idx) + 2) \div 3

\* one turn of `for index in indices.chunks(3)`: index[0..2] and the vertices
\* they name are read (either read panics when out of bounds), the triangle
\* is pushed
BuildTri ==
    /\ pc = "build_tris"
    /\ Len(tris) < NumChunks(indices)
    /\ LET index == Chunk(indices, Len(tris))
       IN IF Len(index) < 3 \/ \E n \in 1..3 : index[n] >= Len(vertices)
          THEN /\ pc' = "panicked"
               /\ panic' = "index out of bounds"
               /\ tris' = tris
          ELSE /\ tris' = Append(tris, TriangleNew(vertices[index[1] + 1],
                                                   vertices[index[2] + 1],
                                                   vertices[index[3] + 1]))
               /\ pc' = pc
               /\ panic' = panic
    /\ UNCHANGED <<vertices, indices, step, voxels, grid_positions,
                   last_op, pre_fill, ret>>

\* the loop over the chunks is over
BuildDone ==
    /\ pc = "build_tris"
    /\ Len(tris) = NumChunks(indices)
    /\ pc' = "scan"
    /\ UNCHANGED <<vertices, indices, step, tris, voxels, grid_positions,
                   panic, last_op, pre_fill, ret>>

\* ScanTri with `voxels = voxel` in place of `voxels.append(&mut voxel)`
ScanTriOverwrite ==
    /\ pc = "scan"
    /\ tris # <<>>
    /\ voxels' = TriVoxelize(Head(tris), step, Epsilon * EpsFactor)
    /\ tris' = Tail(tris)
    /\ UNCHANGED <<pc, vertices, indices, step, grid_positions, panic,
                   last_op, pre_fill, ret>>

\* one turn of `for tri in tris`: voxels.append(&mut tri.voxelize(step, eps));
\* tris keeps the triangles still to come
ScanTri ==
    /\ pc = "scan"
    /\ tris # <<>>
    /\ voxels' = voxels \o TriVoxelize(Head(tris), step, Epsilon * EpsFactor)
    /\ tris' = Tail(tris)
    /\ UNCHANGED <<pc, vertices, indices, step, grid_positions, panic,
                   last_op, pre_fill, ret>>

\* Voxels { grid_positions: voxels.into_iter().collect(), step }
Collect ==
    /\ pc = "scan"
    /\ tris = <<>>
    /\ grid_positions' = Range(voxels)
    /\ pc' = "done"
    /\ last_op' = "voxelize"
    /\ UNCHANGED <<vertices, indices, step, tris, voxels, panic, pre_fill, ret>>

(***************************************************************************)
(* Voxels::new: any finite set of cells and any step make a Voxels         *)
(***************************************************************************)
\* the cells the occupancy sets handed to Voxels::new are drawn from: a row
\* along x and, around the row's cells 1 and 3, the four neighbours in y and z
Cells ==
    {<<x, 0, 0>> : x \in 0..MaxX}
        \cup {<<x, y, 0>> : x \in {1, 3}, y \in {-1, 1}}
        \cup {<<x, 0, z>> : x \in {1, 3}, z \in {-1, 1}}

New ==
    /\ pc = "idle"
    /\ \E s \in SUBSET Cells :
          grid_positions' = s
    /\ step' = Pitch
    /\ pc' = "done"
    /\ last_op' = "new"
    /\ UNCHANGED <<vertices, indices, tris, voxels, panic, pre_fill, ret>>

(***************************************************************************)
(* Voxels::min_max                                                         *)
(***************************************************************************)
\* the fold's accumulator .max(p[n]) over the set, from init
FoldMax(init, s) == CHOOSE m \in s \cup {init} : \A x \in s \cup {init} : m >= x
\* the fold's accumulator .min(p[n]) over the set, from init
FoldMin(init, s) == CHOOSE m \in s \cup {init} : \A x \in s \cup {init} : m <= x

\* Voxels::min_max: ([min_x, min_y, min_z], [max_x, max_y, max_z]), folded
\* from (i32::max_value(), ..) and (i32::min_value(), ..)
min_max(g) ==
    [min |-> [n \in 1..3 |-> FoldMin(I32Max, {p[n] : p \in g})],
     max |-> [n \in 1..3 |-> FoldMax(I32Min, {p[n] : p \in g})]]

MinMax ==
    /\ pc = "done"
    /\ ret' = [op |-> "min_max", value |-> min_max(grid_positions)]
    /\ last_op' = "min_max"
    /\ UNCHANGED <<pc, vertices, indices, step, tris, voxels, grid_positions,
                   panic, pre_fill>>

(***************************************************************************)
(* Voxels::fill                                                            *)
(***************************************************************************)
\* one line of a sweep, from coordinate t on: occ are the occupied
\* coordinates of the line, inside / i / t_pre the loop's variables; the
\* result is the coordinates the loop inserts into its inside_along set
RECURSIVE SweepFrom(_, _, _, _, _, _)
SweepFrom(occ, t, hi, inside, i, t_pre) ==
    IF t > hi
    THEN {}
    ELSE IF t \in occ
    THEN IF i # 0 /\ t - t_pre > 1
         THEN (IF inside THEN (t_pre + 1)..(t - 1) ELSE {})
                 \cup SweepFrom(occ, t + 1, hi, ~inside, i + 1, t)
         ELSE SweepFrom(occ, t + 1, hi, inside, i + 1, t)
    ELSE SweepFrom(occ, t + 1, hi, inside, i, t_pre)

\* Sweep with i = 1 at the start of a line: the first occupied cell of the
\* line is then compared with pre = 0 as if a cell at 0 had come before it
SweepFirstCompared(occ, lo, hi) == SweepFrom(occ, lo, hi, TRUE, 1, 0)

\* a line's sweep: inside = true, i = 0, pre = 0
Sweep(occ, lo, hi) == SweepFrom(occ, lo, hi, TRUE, 0, 0)

inside_along_z(g, mm) ==
    UNION {{<<x, y, p>> : p \in Sweep({z \in mm.min[3]..mm.max[3] : <<x, y, z>> \in g},
                                      mm.min[3], mm.max[3])} :
              <<x, y>> \in (mm.min[1]..mm.max[1]) \X (mm.min[2]..mm.max[2])}

inside_along_x(g, mm) ==
    UNION {{<<p, y, z>> : p \in Sweep({x \in mm.min[1]..mm.max[1] : <<x, y, z>> \in g},
                                      mm.min[1], mm.max[1])} :
              <<y, z>> \in (mm.min[2]..mm.max[2]) \X (mm.min[3]..mm.max[3])}

inside_along_y(g, mm) ==
    UNION {{<<x, p, z>> : p \in Sweep({y \in mm.min[2]..mm.max[2] : <<x, y, z>> \in g},
                                      mm.min[2], mm.max[2])} :
              <<z, x>> \in (mm.min[3]..mm.max[3]) \X (mm.min[1]..mm.max[1])}

\* inside_points with the intersection with inside_along_z left out
inside_points_xy(g) ==
    LET mm == min_max(g)
    IN inside_along_x(g, mm) \cap inside_along_y(g, mm)

\* the cells fill inserts: (inside_along_x n inside_along_y) n inside_along_z
inside_points(g) ==
    LET mm == min_max(g)
    IN (inside_along_x(g, mm) \cap inside_along_y(g, mm)) \cap inside_along_z(g, mm)

\* FillResult with the set replaced by the inside points in place of the
\* inside points inserted into it
FillResultReplaced(g) == inside_points(g)

\* grid_positions after Voxels::fill
FillResult(g) == g \cup inside_points(g)

Fill ==
    /\ pc = "done"
    /\ grid_positions' = FillResult(grid_positions)
    /\ pre_fill' = [grid_positions |-> grid_positions, step |-> step]
    /\ last_op' = "fill"
    /\ ret' = NoRet
    /\ UNCHANGED <<pc, vertices, indices, step, tris, voxels, panic>>

(***************************************************************************)
(* voxel_to_mesh, Voxels::vertices_indices, Voxels::point_cloud.  Mesh      *)
(* vertices are kept doubled: half = step / 2 is then step.                *)
(***************************************************************************)
tri_mesh(p1, p2, p3) == <<p1, p2, p3>>

\* voxel_to_mesh: the vertices of the faces whose mesh_direction flag is set
voxel_to_mesh(voxel, st, mesh_direction) ==
    LET half == st
        x  == 2 * (voxel[1] * st)
        y  == 2 * (voxel[2] * st)
        z  == 2 * (voxel[3] * st)
        p1 == <<x + half, y + half, z + half>>
        p2 == <<x + half, y + half, z - half>>
        p3 == <<x + half, y - half, z + half>>
        p4 == <<x + half, y - half, z - half>>
        p5 == <<x - half, y + half, z + half>>
        p6 == <<x - half, y + half, z - half>>
        p7 == <<x - half, y - half, z + half>>
        p8 == <<x - half, y - half, z - half>>
    IN    (IF mesh_direction[1] THEN tri_mesh(p1, p2, p3) \o tri_mesh(p3, p2, p4) ELSE <<>>)
       \o (IF mesh_direction[2] THEN tri_mesh(p5, p7, p6) \o tri_mesh(p8, p6, p7) ELSE <<>>)
       \o (IF mesh_direction[3] THEN tri_mesh(p1, p5, p6) \o tri_mesh(p1, p6, p2) ELSE <<>>)
       \o (IF mesh_direction[4] THEN tri_mesh(p7, p3, p8) \o tri_mesh(p3, p4, p8) ELSE <<>>)
       \o (IF mesh_direction[5] THEN tri_mesh(p7, p5, p1) \o tri_mesh(p7, p1, p3) ELSE <<>>)
       \o (IF mesh_direction[6] THEN tri_mesh(p6, p8, p2) \o tri_mesh(p8, p4, p2) ELSE <<>>)

\* mesh_dir with x_n looking at the neighbour of x_p
mesh_dir_same_x(g, voxel_pos) ==
    <<~(<<voxel_pos[1] + 1, voxel_pos[2], voxel_pos[3]>> \in g),
      ~(<<voxel_pos[1] + 1, voxel_pos[2], voxel_pos[3]>> \in g),
      ~(<<voxel_pos[1], voxel_pos[2] + 1, voxel_pos[3]>> \in g),
      ~(<<voxel_pos[1], voxel_pos[2] - 1, voxel_pos[3]>> \in g),
      ~(<<voxel_pos[1], voxel_pos[2], voxel_pos[3] + 1>> \in g),
      ~(<<voxel_pos[1], voxel_pos[2], voxel_pos[3] - 1>> \in g)>>

\* [x_p, x_n, y_p, y_n, z_p, z_n] of vertices_indices
mesh_dir(g, voxel_pos) ==
    <<~(<<voxel_pos[1] + 1, voxel_pos[2], voxel_pos[3]>> \in g),
      ~(<<voxel_pos[1] - 1, voxel_pos[2], voxel_pos[3]>> \in g),
      ~(<<voxel_pos[1], voxel_pos[2] + 1, voxel_pos[3]>> \in g),
      ~(<<voxel_pos[1], voxel_pos[2] - 1, voxel_pos[3]>> \in g),
      ~(<<voxel_pos[1], voxel_pos[2], voxel_pos[3] + 1>> \in g),
      ~(<<voxel_pos[1], voxel_pos[2], voxel_pos[3] - 1>> \in g)>>

\* the vertices vertices_indices appends for each cell.  The returned Vec is
\* these runs of vertices one after the other in the order the HashSet
\* yields its cells, which is unspecified: the model keeps the run of each
\* cell and no order between the runs.
meshes_of(g, st) == [voxel_pos \in g |-> voxel_to_mesh(voxel_pos, st, mesh_dir(g, voxel_pos))]

RECURSIVE SumLen(_, _)
SumLen(f, s) ==
    IF s = {} THEN 0
    ELSE LET c == CHOOSE c \in s : TRUE
         IN Len(f[c]) + SumLen(f, s \ {c})

\* Voxels::vertices_indices: (meshes, (0..len).collect())
vertices_indices(g, st) ==
    LET meshes == meshes_of(g, st)
        len == SumLen(meshes, g)
    IN [op |-> "vertices_indices", meshes |-> meshes, indices |-> [n \in 1..len |-> n - 1]]

VerticesIndices ==
    /\ pc = "done"
    /\ ret' = vertices_indices(grid_positions, step)
    /\ last_op' = "vertices_indices"
    /\ UNCHANGED <<pc, vertices, indices, step, tris, voxels, grid_positions,
                   panic, pre_fill>>

\* Voxels::point_cloud: the point of each cell (the Vec's order is the
\* HashSet's, as for vertices_indices)
point_cloud(g, st) == [v \in g |-> <<v[1] * st, v[2] * st, v[3] * st>>]

PointCloud ==
    /\ pc = "done"
    /\ ret' = [op |-> "point_cloud", points |-> point_cloud(grid_positions, step)]
    /\ last_op' = "point_cloud"
    /\ UNCHANGED <<pc, vertices, indices, step, tris, voxels, grid_positions,
                   panic, pre_fill>>

(***************************************************************************)
(* Specifications                                                          *)
(***************************************************************************)
\* a mesh is voxelized, then the Voxels is meshed and exported
Next ==
    \/ VoxelizeCall
    \/ CheckStep
    \/ BuildTri
    \/ BuildDone
    \/ ScanTri
    \/ Collect
    \/ VerticesIndices
    \/ PointCloud

Spec == Init /\ [][Next]_vars

\* a Voxels is made from a set of cells and filled, once or more often
NextFill ==
    \/ New
    \/ Fill

SpecFill == Init /\ [][NextFill]_vars

\* a Voxels is made from a set of cells and read
NextRead ==
    \/ New
    \/ MinMax
    \/ VerticesIndices
    \/ PointCloud

SpecRead == Init /\ [][NextRead]_vars

(***************************************************************************)
(* Properties of Voxels::fill                                              *)
(***************************************************************************)
\* C1: fill is idempotent: right after a fill, a second fill would leave
\* grid_positions as it is (it inserts no cell).
FillIdempotent ==
    (pc = "done" /\ last_op = "fill") => FillResult(grid_positions) = grid_positions

\* C6: fill is monotonic and insert-only: right after a fill, every cell the
\* Voxels held before the call (pre_fill) is still in grid_positions, the
\* number of occupied cells is no lower, and step is what it was.
FillMonotonic ==
    (pc = "done" /\ last_op = "fill") =>
        /\ pre_fill.grid_positions \subseteq grid_positions
        /\ Cardinality(grid_positions) >= Cardinality(pre_fill.grid_positions)
        /\ step = pre_fill.step

\* a fill that has inserted cells into a set that was not empty
FillInserted ==
    /\ last_op = "fill"
    /\ pre_fill.grid_positions # {}
    /\ pre_fill.grid_positions # grid_positions
    /\ Cardinality(grid_positions) > Cardinality(pre_fill.grid_positions)

\* the coordinates along axis a of the cells of g on the axis-parallel line
\* through cell c
OnLine(g, c, a) == {p[a] : p \in {q \in g : \A n \in 1..3 : n # a => q[n] = c[n]}}

\* coordinate t of a line lies in a gap between two runs of occupied cells
InGap(occ, t) ==
    /\ t \notin occ
    /\ \E lo \in occ : lo < t
    /\ \E hi \in occ : hi > t

\* the number (1st, 2nd, ...) of the gap a coordinate t in a gap lies in:
\* the number of runs that end below t
GapNumber(occ, t) == Cardinality({u \in occ : u < t /\ (u + 1) \notin occ})

\* cell c is a candidate of the sweep of g along axis a: it lies in an
\* odd-numbered gap of its line
Candidate(g, c, a) ==
    LET occ == OnLine(g, c, a)
    IN InGap(occ, c[a]) /\ GapNumber(occ, c[a]) % 2 = 1

\* the bounding box of Cells
Hull == (0..MaxX) \X (-1..1) \X (-1..1)

HasGap(g, a) == \E c \in Hull : InGap(OnLine(g, c, a), c[a])

\* C13: fill does not leak: no cell it hands to insert was occupied before
\* the call; every cell it has inserted lies within the bounding box of the
\* set before the call and has, on each of the three axis-parallel lines
\* through it, a cell of that set at a smaller and one at a larger
\* coordinate; a fill of an empty set, of a single cell, or of a set with no
\* gap along some axis inserts nothing.
FillContained ==
    (pc = "done" /\ last_op = "fill") =>
        LET before == pre_fill.grid_positions
            mm == min_max(before)
        IN /\ inside_points(before) \cap before = {}
           /\ \A c \in grid_positions \ before : \A a \in 1..3 :
                 /\ mm.min[a] <= c[a] /\ c[a] <= mm.max[a]
                 /\ \E lo \in OnLine(before, c, a) : lo < c[a]
                 /\ \E hi \in OnLine(before, c, a) : hi > c[a]
           /\ (\/ Cardinality(before) <= 1
               \/ \E a \in 1..3 : ~HasGap(before, a))
                 => grid_positions = before

\* a fill has inserted a cell and has left a cell within the bounding box of
\* the set before the call unoccupied
FillInsideBox ==
    /\ last_op = "fill"
    /\ grid_positions \ pre_fill.grid_positions # {}
    /\ LET mm == min_max(pre_fill.grid_positions)
       IN \E c \in Hull \ grid_positions :
             \A a \in 1..3 : mm.min[a] <= c[a] /\ c[a] <= mm.max[a]

(***************************************************************************)
(* Properties of Voxels::min_max                                           *)
(***************************************************************************)
\* the pair min_max folds from: min at the largest i32, max at the smallest
Sentinels ==
    [min |-> <<I32Max, I32Max, I32Max>>, max |-> <<I32Min, I32Min, I32Min>>]

\* C9: min_max of a set with no cells does not report the sentinel pair (min
\* the largest integer, max the smallest); of a set with cells it reports the
\* componentwise minimum and maximum of the occupied coordinates.
MinMaxBounds ==
    (ret.op = "min_max") =>
        IF grid_positions = {}
        THEN ret.value # Sentinels
        ELSE \A n \in 1..3 :
                /\ \E p \in grid_positions : p[n] = ret.value.min[n]
                /\ \E p \in grid_positions : p[n] = ret.value.max[n]
                /\ \A p \in grid_positions :
                      ret.value.min[n] <= p[n] /\ p[n] <= ret.value.max[n]

(***************************************************************************)
(* Properties of Voxels::vertices_indices                                  *)
(***************************************************************************)
\* the six face directions, in the order of mesh_direction
Dirs == << <<1, 0, 0>>, <<-1, 0, 0>>, <<0, 1, 0>>, <<0, -1, 0>>, <<0, 0, 1>>, <<0, 0, -1>> >>

\* the axis a direction runs along, and its sign
DirAxis(d) == (d + 1) \div 2
DirSign(d) == IF d % 2 = 1 THEN 1 ELSE -1

\* the doubled coordinate, along the axis of direction d, of the plane in
\* which voxel_to_mesh puts the face of cell c in direction d
FacePlane(c, d, st) == 2 * (c[DirAxis(d)] * st) + DirSign(d) * st

\* the number of triangles in the run of cell c that lie in the plane of the
\* face of c in direction d
NumOnFace(run, c, d, st) ==
    LET a == DirAxis(d)
        plane == FacePlane(c, d, st)
    IN Cardinality({n \in 1..(Len(run) \div 3) :
                       /\ run[3 * n - 2][a] = plane
                       /\ run[3 * n - 1][a] = plane
                       /\ run[3 * n][a] = plane})

\* the (cell, direction) pairs whose neighbour is absent
OpenFaces(g) == {<<c, d>> \in g \X (1..6) : VAdd(c, Dirs[d]) \notin g}

\* C5: vertices_indices emits the two triangles of the face of cell c in
\* direction d if and only if the neighbour c + d is absent from the set (no
\* triangle of that face otherwise), cells outside the set emit nothing, and
\* the number of triangles is twice the number of (cell, direction) pairs
\* with an absent neighbour.
FaceCulling ==
    (ret.op = "vertices_indices") =>
        /\ DOMAIN ret.meshes = grid_positions
        /\ \A c \in grid_positions : \A d \in 1..6 :
              NumOnFace(ret.meshes[c], c, d, step) =
                  IF VAdd(c, Dirs[d]) \in grid_positions THEN 0 ELSE 2
        /\ Len(ret.indices) = 3 * 2 * Cardinality(OpenFaces(grid_positions))
        /\ \A c \in grid_positions : Len(ret.meshes[c]) % 3 = 0

\* a mesh was made of a set in which some face lies between two occupied
\* cells and some face is open
CulledAndOpenFaces ==
    /\ ret.op = "vertices_indices"
    /\ \E c \in grid_positions : \E d \in 1..6 : VAdd(c, Dirs[d]) \in grid_positions
    /\ OpenFaces(grid_positions) # {}
    /\ Len(ret.indices) > 0

\* the normal tri_mesh of main.rs computes for a triangle, before it is
\* normalized: (p2 - p1) x (p3 - p1)
tri_normal(p1, p2, p3) == Cross(VSub(p2, p1), VSub(p3, p1))

\* triangle n (from 1) of a run of vertices
TriOfRun(run, n) == <<run[3 * n - 2], run[3 * n - 1], run[3 * n]>>

\* triangle t lies in the plane of the face of cell c in direction d
OnFace(t, c, d, st) ==
    \A k \in 1..3 : t[k][DirAxis(d)] = FacePlane(c, d, st)

\* vector v points along direction d: a positive multiple of Dirs[d]
PointsAlong(v, d) ==
    /\ Dot(v, Dirs[d]) > 0
    /\ \A n \in 1..3 : n # DirAxis(d) => v[n] = 0

\* C11: every triangle vertices_indices emits in the plane of the face of a
\* cell in direction d has the vertex order whose normal (p2-p1) x (p3-p1)
\* points away from the cell centre, along d.
OutwardWinding ==
    (ret.op = "vertices_indices") =>
        \A c \in DOMAIN ret.meshes : \A n \in 1..(Len(ret.meshes[c]) \div 3) :
            \A d \in 1..6 :
                LET t == TriOfRun(ret.meshes[c], n)
                IN OnFace(t, c, d, step)
                       => PointsAlong(tri_normal(t[1], t[2], t[3]), d)

\* what the code does for every face: the normal of each emitted triangle
\* points from the face towards the cell centre, against d
InwardWinding ==
    (ret.op = "vertices_indices") =>
        \A c \in DOMAIN ret.meshes : \A n \in 1..(Len(ret.meshes[c]) \div 3) :
            \A d \in 1..6 :
                LET t == TriOfRun(ret.meshes[c], n)
                IN OnFace(t, c, d, step)
                       => PointsAlong(VScale(tri_normal(t[1], t[2], t[3]), -1), d)

(***************************************************************************)
(* Properties of Triangle::voxelize and Voxels::voxelize                   *)
(***************************************************************************)
\* eps as Voxels::voxelize hands it to Triangle::voxelize
Eps == Epsilon * EpsFactor

\* the triangle of face n (from 0) of the mesh of the call
FaceTriangle(n) ==
    LET index == Chunk(indices, n)
    IN TriangleNew(vertices[index[1] + 1], vertices[index[2] + 1], vertices[index[3] + 1])

\* the faces `for tri in tris` has been through
Scanned == 0..(NumChunks(indices) - Len(tris) - 1)

\* every cell of the inclusive scan range of a triangle
ScanRange(triangle, st) ==
    LET g == grid_aabb(triangle, st)
    IN (g.min[1]..g.max[1]) \X (g.min[2]..g.max[2]) \X (g.min[3]..g.max[3])

\* the cells of the scan range whose padded box passes the overlap test
PassingCells(triangle, st, eps) ==
    {c \in ScanRange(triangle, st) : triangle_aabb_intersects(triangle, CellBox(c, st, eps))}

\* the three points span a triangle: its normal is not the zero vector
Proper(triangle) ==
    Cross(VSub(triangle.points[2], triangle.points[1]),
          VSub(triangle.points[3], triangle.points[1])) # <<0, 0, 0>>

\* C2: Triangle::voxelize returns exactly the cells of its scan range whose
\* padded box passes the overlap test: the cells gathered from the faces
\* scanned so far are passing cells of those faces, and no passing cell of a
\* scanned face that is a triangle of non-zero area has been skipped.
NoCellSkipped ==
    (pc \in {"scan", "done"}) =>
        /\ Range(voxels) \subseteq
               UNION {PassingCells(FaceTriangle(n), step, Eps) : n \in Scanned}
        /\ \A n \in Scanned :
               Proper(FaceTriangle(n))
                   => PassingCells(FaceTriangle(n), step, Eps) \subseteq Range(voxels)

\* the closed box [i*step, (i+1)*step]^3 of a cell
ClosedBox(cell, st) == CellBox(cell, st, 0)

\* the triangle and the closed box overlap or touch: no axis of the thirteen
\* (the three box normals, the triangle's normal, the nine edge cross
\* products) separates them
Touches(triangle, box) ==
    /\ \A n \in 1..3 : /\ triangle.aabb.min[n] <= box.max[n]
                       /\ box.min[n] <= triangle.aabb.max[n]
    /\ triangle_aabb_intersects(triangle, box)

\* the scan range widened by one cell on every side
Window(triangle, st) ==
    LET g == grid_aabb(triangle, st)
    IN ((g.min[1] - 1)..(g.max[1] + 1)) \X ((g.min[2] - 1)..(g.max[2] + 1))
           \X ((g.min[3] - 1)..(g.max[3] + 1))

\* C3: the scan range of every face of the mesh that is a triangle of
\* non-zero area holds every cell whose closed box overlaps or touches the
\* triangle.
RangeCoversTouching ==
    (pc \in {"scan", "done"}) =>
        \A n \in 0..(NumChunks(indices) - 1) :
            Proper(FaceTriangle(n)) =>
                \A c \in Window(FaceTriangle(n), step) :
                    Touches(FaceTriangle(n), ClosedBox(c, step))
                        => c \in ScanRange(FaceTriangle(n), step)

\* C4: the Voxels that voxelize returns holds the cells of each face's
\* triangle voxelized on its own, whatever was scanned before it: the union
\* over the set of faces, which no permutation of the faces changes.
OrderIndependent ==
    (pc = "done" /\ last_op = "voxelize") =>
        grid_positions =
            UNION {Range(TriVoxelize(FaceTriangle(n), step, Eps)) :
                      n \in 0..(NumChunks(indices) - 1)}

\* a Voxels of two faces whose triangles give different, non-empty cells
TwoFacesVoxelized ==
    /\ pc = "done"
    /\ last_op = "voxelize"
    /\ NumChunks(indices) = 2
    /\ LET a == Range(TriVoxelize(FaceTriangle(0), step, Eps))
           b == Range(TriVoxelize(FaceTriangle(1), step, Eps))
       IN a \ b # {} /\ b \ a # {}

\* C7: the cube [0, s]^3 of 12 triangles voxelized with step s gives the one
\* cell (0, 0, 0), and vertices_indices of it gives 12 triangles.
ScenarioA ==
    (/\ pc = "done"
     /\ vertices = CubeVertices
     /\ indices = CubeIndices
     /\ step = Pitch) =>
        /\ grid_positions = {<<0, 0, 0>>}
        /\ (ret.op = "vertices_indices") => Len(ret.indices) = 3 * 12

\* C8: a call with step <= T::epsilon() ends in the panic about the step
\* before a triangle is built or a cell is computed, and no Voxels is made.
InvalidStepFailsFast ==
    (pc \notin {"idle", "check_step"} /\ step <= Epsilon) =>
        /\ pc = "panicked"
        /\ panic = "step should be positive value"
        /\ tris = <<>>
        /\ voxels = <<>>
        /\ grid_positions = {}
        /\ last_op = "none"

\* a call with an invalid step and an index past the vertex array has panicked
InvalidStepAndIndexPanicked ==
    /\ pc = "panicked"
    /\ step <= Epsilon
    /\ \E n \in DOMAIN indices : indices[n] >= Len(vertices)

\* C10: the cube vertices_indices emits for a cell is the cube
\* [i*step, (i+1)*step]^3 whose box Triangle::voxelize tested (every emitted
\* vertex is a corner of it), and point_cloud reports the minimum corner.
OneAddressingConvention ==
    /\ (ret.op = "vertices_indices") =>
          \A c \in DOMAIN ret.meshes : \A k \in DOMAIN ret.meshes[c] : \A n \in 1..3 :
              ret.meshes[c][k][n] \in {2 * ClosedBox(c, step).min[n],
                                       2 * ClosedBox(c, step).max[n]}
    /\ (ret.op = "point_cloud") =>
          \A c \in DOMAIN ret.points : ret.points[c] = ClosedBox(c, step).min

====
